---------------------------- MODULE Spec2Model ----------------------------
(***************************************************************************)
(* Inundation_differences: two scripts that compare a 10 m reference       *)
(* raster with coarser predictions resampled onto the reference grid.      *)
(*                                                                         *)
(*   Inundation_detector.py  main(): per-pixel TP/FN/FP classification,    *)
(*                           confusion counts, areas and percentages.      *)
(*   NRMSE.py                compute_nrmse / process_nrmse / module script:*)
(*                           normalised RMSE per variable and prediction.  *)
(*                                                                         *)
(* Spec      is the state machine of Inundation_detector.main.             *)
(* SpecCalls is compute_nrmse and process_nrmse of NRMSE.py, each called   *)
(*           once on any arguments.                                        *)
(* SpecNrmse is the state machine of NRMSE.py run as a script.             *)
(*                                                                         *)
(* A raster band is a function from the pixel index (row-major position)   *)
(* to its value; every operation of the two scripts is element-wise or a   *)
(* reduction, so the 2-D shape plays no role.  rasterio (open, read,       *)
(* reproject) is the environment: what it returns is an input of the step. *)
(***************************************************************************)
EXTENDS Integers, Sequences, FiniteSets, TLC

VARIABLES
    \* ---- Inundation_detector.py
    files,                    \* input rasters present on disk
    d_pc,                     \* position of main()
    ref_array,                \* band 1 of the reference raster
    total_inundated_pixels,
    pixel_area,
    k,                        \* index of the for loop over COARSE_PATHS
    resampled_coarse,         \* destination array of the last reproject
    classification,           \* classification raster of the last iteration
    written,                  \* classification rasters written so far (paths)
    stats,
    csv_stats,                \* inundation_stats.csv
    \* ---- NRMSE.py
    n_pc,                     \* position of the call / of the script
    reference, prediction, normalization,   \* arguments of compute_nrmse
    outcome,                  \* what the last compute_nrmse call ended in
    ds,                       \* index of the for loop over datasets
    variable_name,            \* parameter of the running process_nrmse
    normalization_method,     \* parameter of the running process_nrmse
    ref_data,                 \* reference band read by process_nrmse
    pi,                       \* index of the loop over prediction_filenames
    results,                  \* local list of process_nrmse
    all_results,
    csv_nrmse                 \* nrmse_results.csv

dvars == <<files, d_pc, ref_array, total_inundated_pixels, pixel_area, k,
           resampled_coarse, classification, written, stats, csv_stats>>
nvars == <<n_pc, reference, prediction, normalization, outcome, ds,
           variable_name, normalization_method, ref_data, pi, results, all_results, csv_nrmse>>
vars == <<dvars, nvars>>

None == "none"

(***************************************************************************)
(*                       Inundation_detector.py                            *)
(***************************************************************************)
REFERENCE_PATH == "reference_10m.tif"
COARSE_PATHS == <<"prediction_15m.tif", "prediction_20m.tif", "prediction_30m.tif">>
OUTPUT_DIR == "output"
INUNDATED_VALUE == 1
NODATA_CLASS == 255
DST_NODATA == -9999

\* Number of pixels of the reference grid explored by TLC.
NPix == 3

Pixels == 1..NPix
\* Values a reference pixel takes: dry, inundated, another class.
RefValues == {0, INUNDATED_VALUE, 2}
\* Values reproject leaves in the destination: a source value, or dst_nodata
\* where the pixel maps outside the source coverage.
CoarseValues == {DST_NODATA, 0, INUNDATED_VALUE}
RefArrays == [Pixels -> RefValues]
CoarseArrays == [Pixels -> CoarseValues]
\* Affine transforms (a, b, c, d, e, f) of the reference profile: the 10 m
\* north-up grid of reference_10m.tif.
RefTransforms == {<<10, 0, 0, 0, -10, 0>>}

Abs(x) == IF x < 0 THEN -x ELSE x

\* np.sum of a boolean mask
SumMask(mask) == Cardinality({p \in DOMAIN mask : mask[p]})

\* os.path.basename(coarse_path).split('.')[0]
Res(path) ==
    CASE path = "prediction_15m.tif" -> "prediction_15m"
      [] path = "prediction_20m.tif" -> "prediction_20m"
      [] path = "prediction_30m.tif" -> "prediction_30m"

\* os.path.join(OUTPUT_DIR, f'classification_{res}.tif')
OutputPath(path) == <<OUTPUT_DIR, "classification_", Res(path), ".tif">>

\* lines 55-57: the three boolean masks
ValidMask(ref, coarse) ==
    [p \in DOMAIN ref |-> ref[p] = INUNDATED_VALUE /\ coarse[p] = INUNDATED_VALUE]
FalseNegativesRefBlind(ref, coarse) ==
    [p \in DOMAIN ref |-> coarse[p] # INUNDATED_VALUE]
FalseNegatives(ref, coarse) ==
    [p \in DOMAIN ref |-> ref[p] = INUNDATED_VALUE /\ coarse[p] # INUNDATED_VALUE]
FalsePositives(ref, coarse) ==
    [p \in DOMAIN ref |-> ref[p] # INUNDATED_VALUE /\ coarse[p] = INUNDATED_VALUE]

\* classification[mask] = label
Assign(arr, mask, label) == [p \in DOMAIN arr |-> IF mask[p] THEN label ELSE arr[p]]

\* One of the three assignments of lines 61-63, by name.
AssignStep(arr, ref, coarse, step) ==
    CASE step = "tp" -> Assign(arr, ValidMask(ref, coarse), 1)
      [] step = "fn" -> Assign(arr, FalseNegatives(ref, coarse), 2)
      [] step = "fp" -> Assign(arr, FalsePositives(ref, coarse), 3)

\* np.full_like(ref_array, NODATA_CLASS) followed by the assignments in `order`.
ClassifyInOrder(ref, coarse, order) ==
    LET full == [p \in DOMAIN ref |-> NODATA_CLASS]
        a1 == AssignStep(full, ref, coarse, order[1])
        a2 == AssignStep(a1, ref, coarse, order[2])
    IN  AssignStep(a2, ref, coarse, order[3])

\* lines 60-63, in the order of the code
Classify(ref, coarse) == ClassifyInOrder(ref, coarse, <<"tp", "fn", "fp">>)

\* line 30, and a variant that counts every non-dry reference pixel
TotalInundatedNonDry(ref) == SumMask([p \in DOMAIN ref |-> ref[p] # 0])
TotalInundated(ref) == SumMask([p \in DOMAIN ref |-> ref[p] = INUNDATED_VALUE])

\* lines 84-86: (count / total) * 100 if total > 0 else 0, as an exact fraction
PctUnguarded(count, total) == [num |-> count * 100, den |-> total]
Pct(count, total) ==
    IF total > 0 THEN [num |-> count * 100, den |-> total]
                 ELSE [num |-> 0, den |-> 1]

fieldnames == <<"Resolution", "True Positives", "False Negatives", "False Positives",
                "TP Area (m2)", "FN Area (m2)", "FP Area (m2)",
                "TP (%)", "FN (%)", "FP (%)">>

\* lines 72-87: the dict appended to stats
StatsEntry(path, ref, coarse, total, area) ==
    LET tp_count == SumMask(ValidMask(ref, coarse))
        fn_count == SumMask(FalseNegatives(ref, coarse))
        fp_count == SumMask(FalsePositives(ref, coarse))
    IN  ("Resolution" :> Res(path)) @@
        ("True Positives" :> tp_count) @@
        ("False Negatives" :> fn_count) @@
        ("False Positives" :> fp_count) @@
        ("TP Area (m2)" :> tp_count * area) @@
        ("FN Area (m2)" :> fn_count * area) @@
        ("FP Area (m2)" :> fp_count * area) @@
        ("TP (%)" :> Pct(tp_count, total)) @@
        ("FN (%)" :> Pct(fn_count, total)) @@
        ("FP (%)" :> Pct(fp_count, total))

\* csv.DictWriter.writerow: the entry's values in fieldnames order
CsvRow(entry) == [c \in 1..Len(fieldnames) |-> entry[fieldnames[c]]]

DetectorInputs == {REFERENCE_PATH} \cup {COARSE_PATHS[c] : c \in 1..Len(COARSE_PATHS)}

DetectorIdle ==
    /\ files = {}
    /\ d_pc = "idle"
    /\ ref_array = None
    /\ total_inundated_pixels = 0
    /\ pixel_area = 0
    /\ k = 0
    /\ resampled_coarse = None
    /\ classification = None
    /\ written = <<>>
    /\ stats = <<>>
    /\ csv_stats = None

DetectorStart ==
    /\ files \in SUBSET DetectorInputs
    /\ d_pc = "start"
    /\ ref_array = None
    /\ total_inundated_pixels = 0
    /\ pixel_area = 0
    /\ k = 0
    /\ resampled_coarse = None
    /\ classification = None
    /\ written = <<>>
    /\ stats = <<>>
    /\ csv_stats = None

\* lines 23-33: the reference is opened and read, the loop is about to start
OpenReference ==
    /\ d_pc = "start"
    /\ REFERENCE_PATH \in files
    /\ \E arr \in RefArrays, tr \in RefTransforms :
          /\ ref_array' = arr
          /\ total_inundated_pixels' = TotalInundated(arr)
          /\ pixel_area' = Abs(tr[1] * tr[5])
    /\ stats' = <<>>
    /\ k' = 1
    /\ d_pc' = "loop"
    /\ UNCHANGED <<files, resampled_coarse, classification, written, csv_stats>>

\* line 23: rasterio.open raises on a missing reference; nothing catches it
OpenReferenceFails ==
    /\ d_pc = "start"
    /\ REFERENCE_PATH \notin files
    /\ d_pc' = "crashed"
    /\ UNCHANGED <<files, ref_array, total_inundated_pixels, pixel_area, k,
                   resampled_coarse, classification, written, stats, csv_stats>>

\* lines 35-87: one iteration of the loop on a prediction that opens
ProcessCoarse ==
    /\ d_pc = "loop"
    /\ k <= Len(COARSE_PATHS)
    /\ COARSE_PATHS[k] \in files
    /\ \E resampled \in CoarseArrays :
          /\ resampled_coarse' = resampled
          /\ classification' = Classify(ref_array, resampled)
          /\ stats' = Append(stats, StatsEntry(COARSE_PATHS[k], ref_array, resampled,
                                               total_inundated_pixels, pixel_area))
    /\ written' = Append(written, OutputPath(COARSE_PATHS[k]))
    /\ k' = k + 1
    /\ UNCHANGED <<files, d_pc, ref_array, total_inundated_pixels, pixel_area, csv_stats>>

\* line 36: rasterio.open raises on a missing prediction; main() has no
\* try/except and no os.path.exists test, so the exception ends the run
OpenCoarseFails ==
    /\ d_pc = "loop"
    /\ k <= Len(COARSE_PATHS)
    /\ COARSE_PATHS[k] \notin files
    /\ d_pc' = "crashed"
    /\ UNCHANGED <<files, ref_array, total_inundated_pixels, pixel_area, k,
                   resampled_coarse, classification, written, stats, csv_stats>>

\* lines 89-98
WriteStatsCsv ==
    /\ d_pc = "loop"
    /\ k > Len(COARSE_PATHS)
    /\ csv_stats' = [header |-> fieldnames,
                     rows |-> [r \in 1..Len(stats) |-> CsvRow(stats[r])]]
    /\ d_pc' = "done"
    /\ UNCHANGED <<files, ref_array, total_inundated_pixels, pixel_area, k,
                   resampled_coarse, classification, written, stats>>

(***************************************************************************)
(*                               NRMSE.py                                  *)
(*                                                                         *)
(* A masked array is [data |-> values, mask |-> booleans], the mask TRUE   *)
(* where the pixel is invalid; rasterio's read(masked=True) and            *)
(* np.ma.masked_invalid both give a mask of the array's shape.  Pixel      *)
(* values are integers, on which the float sums, squares and differences   *)
(* of the code are exact.                                                  *)
(*                                                                         *)
(* A float result is kept exactly as [kind, sgn, p, q]:                    *)
(*   kind "num"    the real sgn * sqrt(p / q), p >= 0, q > 0, p/q reduced, *)
(*                 sgn in {-1, 0, 1} and sgn = 0 iff p = 0;                *)
(*   kind "nan", "inf"   the IEEE results of 0.0/0.0 and x/0.0, x > 0;     *)
(*   kind "masked" numpy.ma.masked, the reduction of an empty selection.   *)
(***************************************************************************)
\* Number of pixels of the arrays handed to compute_nrmse directly.
NCells == 2
\* Number of leading entries of the datasets table the script is run on.
MaxDatasets == 2

Cells == 1..NCells
CellValues == {-1, 0, 2}
MaskedArrays == {[data |-> d, mask |-> m] : d \in [Cells -> CellValues],
                                             m \in [Cells -> BOOLEAN]}
\* The methods of compute_nrmse, and a string that is none of them.
NormalizationInputs == {"range", "mean", "std", "invalid"}

\* The rasters the script's files hold: a varying field, a constant field
\* and a band without any valid pixel.
ScriptRasters ==
    { [data |-> <<0, 2>>, mask |-> <<FALSE, FALSE>>],
      [data |-> <<1, 1>>, mask |-> <<FALSE, FALSE>>],
      [data |-> <<0, 0>>, mask |-> <<TRUE, TRUE>>] }

RECURSIVE GCD(_, _)
GCD(a, b) == IF b = 0 THEN a ELSE GCD(b, a % b)

Sign(x) == IF x > 0 THEN 1 ELSE IF x < 0 THEN -1 ELSE 0

NaN == [kind |-> "nan", sgn |-> 0, p |-> 0, q |-> 1]
Inf == [kind |-> "inf", sgn |-> 1, p |-> 0, q |-> 1]
Masked == [kind |-> "masked", sgn |-> 0, p |-> 0, q |-> 1]

\* sgn * sqrt(p / q) in reduced form
Num(sgn, p, q) ==
    LET g == GCD(p, q)
    IN  [kind |-> "num", sgn |-> IF p = 0 THEN 0 ELSE sgn, p |-> p \div g, q |-> q \div g]

\* the rational a / b, b > 0
Rat(a, b) == Num(Sign(a), a * a, b * b)

RECURSIVE SumOver(_, _)
SumOver(S, f) ==
    IF S = {} THEN 0
    ELSE LET i == CHOOSE j \in S : TRUE IN f[i] + SumOver(S \ {i}, f)

MaxOver(S, f) == CHOOSE v \in {f[i] : i \in S} : \A i \in S : f[i] <= v
MinOver(S, f) == CHOOSE v \in {f[i] : i \in S} : \A i \in S : v <= f[i]

\* line 34: mask = ~reference.mask & ~prediction.mask, as the selected indices
JointValidRefOnly(ref, pred) == {i \in DOMAIN ref.data : ~ref.mask[i]}
JointValid(ref, pred) ==
    {i \in DOMAIN ref.data : ~ref.mask[i] /\ ~pred.mask[i]}

\* line 39: np.sqrt(np.mean((ref_values - pred_values) ** 2)); the mean of an
\* empty masked selection is numpy.ma.masked, and so is its square root
Rmse(ref, pred) ==
    LET valid == JointValid(ref, pred)
        sq == [i \in valid |-> (ref.data[i] - pred.data[i]) * (ref.data[i] - pred.data[i])]
    IN  IF valid = {} THEN Masked
        ELSE Num(1, SumOver(valid, sq), Cardinality(valid))

ValueError(msg) == [kind |-> "raise", exc |-> "ValueError", msg |-> msg]
Returned(v) == [kind |-> "return", value |-> v]
ZeroSizeMsg == "zero-size array to reduction operation maximum which has no identity"
InvalidMethodMsg == "Invalid normalization method. Choose 'range', 'mean', or 'std'."

\* line 43: ref_values.max() - ref_values.min(); MaskedArray.max() of an
\* empty selection raises ValueError
RangeFactorSwapped(ref, pred) ==
    LET valid == JointValid(ref, pred)
        x == [i \in valid |-> ref.data[i]]
    IN  IF valid = {} THEN ValueError(ZeroSizeMsg)
        ELSE Returned(Rat(MinOver(valid, x) - MaxOver(valid, x), 1))
RangeFactor(ref, pred) ==
    LET valid == JointValid(ref, pred)
        x == [i \in valid |-> ref.data[i]]
    IN  IF valid = {} THEN ValueError(ZeroSizeMsg)
        ELSE Returned(Rat(MaxOver(valid, x) - MinOver(valid, x), 1))

\* line 45: np.mean(ref_values)
MeanFactor(ref, pred) ==
    LET valid == JointValid(ref, pred)
        x == [i \in valid |-> ref.data[i]]
    IN  IF valid = {} THEN Returned(Masked)
        ELSE Returned(Rat(SumOver(valid, x), Cardinality(valid)))

\* line 47: np.std(ref_values), the population standard deviation
\* sqrt(E[x^2] - E[x]^2)
StdFactor(ref, pred) ==
    LET valid == JointValid(ref, pred)
        n == Cardinality(valid)
        x == [i \in valid |-> ref.data[i]]
        xx == [i \in valid |-> ref.data[i] * ref.data[i]]
    IN  IF valid = {} THEN Returned(Masked)
        ELSE Returned(Num(1, n * SumOver(valid, xx)
                               - SumOver(valid, x) * SumOver(valid, x), n * n))

\* lines 42-49: the normalization factor, or the exception raised instead
NormFactorSilentDefault(ref, pred, method) ==
    CASE method = "range" -> RangeFactor(ref, pred)
      [] method = "mean" -> MeanFactor(ref, pred)
      [] method = "std" -> StdFactor(ref, pred)
      [] OTHER -> RangeFactor(ref, pred)
NormFactor(ref, pred, method) ==
    CASE method = "range" -> RangeFactor(ref, pred)
      [] method = "mean" -> MeanFactor(ref, pred)
      [] method = "std" -> StdFactor(ref, pred)
      [] OTHER -> ValueError(InvalidMethodMsg)

\* rmse / norm_factor on numpy scalars: no exception, a zero divisor gives
\* nan or inf (with a RuntimeWarning), masked operands give masked
Divide(x, y) ==
    IF x.kind = "masked" \/ y.kind = "masked" THEN Masked
    ELSE IF y.sgn = 0 THEN (IF x.sgn = 0 THEN NaN ELSE Inf)
    ELSE Num(x.sgn * y.sgn, x.p * y.q, x.q * y.p)

\* ... * 100
Times100(x) == IF x.kind = "num" THEN Num(x.sgn, x.p * 10000, x.q) ELSE x

\* lines 32-51
compute_nrmse(ref, pred, method) ==
    LET rmse == Rmse(ref, pred)
        norm_factor == NormFactor(ref, pred, method)
    IN  IF norm_factor.kind = "raise" THEN norm_factor
        ELSE Returned(Times100(Divide(rmse, norm_factor.value)))

\* lines 95-102
datasets ==
    << [var_folder |-> "depth", file_prefix |-> "depth", normalization |-> "range"],
       [var_folder |-> "speed", file_prefix |-> "speed", normalization |-> "range"],
       [var_folder |-> "solid_frac", file_prefix |-> "solids_frac", normalization |-> "range"],
       [var_folder |-> "time", file_prefix |-> "Inundation_time", normalization |-> "range"],
       [var_folder |-> "erosion", file_prefix |-> "erosion", normalization |-> "range"],
       [var_folder |-> "IP", file_prefix |-> "impact_pressure", normalization |-> "range"] >>

\* The script is explored on the first NDatasets entries of the table.
NDatasets == IF MaxDatasets < Len(datasets) THEN MaxDatasets ELSE Len(datasets)

\* lines 56-60
prediction_filenames(name) ==
    << <<"Max_", name, "_N15m.tif">>,
       <<"Max_", name, "_N20m.tif">>,
       <<"Max_", name, "_N30m.tif">> >>

\* floor(sqrt(a / b)), b > 0: the largest f with f * f * b <= a
RECURSIVE SqrtUpper(_, _, _)
SqrtUpper(h, a, b) == IF h * h * b > a THEN h ELSE SqrtUpper(2 * h, a, b)
RECURSIVE SqrtBisect(_, _, _, _)
SqrtBisect(lo, hi, a, b) ==
    IF hi - lo <= 1 THEN lo
    ELSE LET mid == (lo + hi) \div 2
         IN  IF mid * mid * b <= a THEN SqrtBisect(mid, hi, a, b)
                                   ELSE SqrtBisect(lo, mid, a, b)
FloorSqrt(a, b) == SqrtBisect(0, SqrtUpper(1, a, b), a, b)

\* line 131: f"{nrmse:.2f}%".  A number is rounded to hundredths (half to
\* even); nan and inf print as such; numpy.ma.masked ignores the format
\* specification and prints "--".  (p * 10000 stays below 2^31 for every
\* value the script's rasters produce.)
FormatPercent(v) ==
    CASE v.kind = "nan" -> [text |-> "nan%", neg |-> FALSE, hundredths |-> 0]
      [] v.kind = "inf" -> [text |-> "inf%", neg |-> FALSE, hundredths |-> 0]
      [] v.kind = "masked" -> [text |-> "--%", neg |-> FALSE, hundredths |-> 0]
      [] OTHER ->
            LET a == v.p * 10000
                f == FloorSqrt(a, v.q)
                twice == (2 * f + 1) * (2 * f + 1) * v.q
                up == twice < 4 * a \/ (twice = 4 * a /\ f % 2 = 1)
            IN  [text |-> "%.2f%", neg |-> v.sgn < 0,
                 hundredths |-> IF up THEN f + 1 ELSE f]

nrmse_fieldnames == <<"variable", "prediction_file", "nrmse", "normalization_method">>

\* lines 128-134
FormattedResult(result) ==
    [variable |-> result.variable,
     prediction_file |-> result.prediction_file,
     nrmse |-> FormatPercent(result.nrmse),
     normalization_method |-> result.normalization_method]

NoOutcome == [kind |-> "none"]

NrmseIdle ==
    /\ n_pc = "idle"
    /\ reference = None
    /\ prediction = None
    /\ normalization = None
    /\ outcome = NoOutcome
    /\ ds = 0
    /\ variable_name = None
    /\ normalization_method = None
    /\ ref_data = None
    /\ pi = 0
    /\ results = <<>>
    /\ all_results = <<>>
    /\ csv_nrmse = None

\* ---- compute_nrmse called directly on a pair of masked arrays
CallStart ==
    /\ n_pc = "call"
    /\ reference \in MaskedArrays
    /\ prediction \in MaskedArrays
    /\ normalization \in NormalizationInputs
    /\ outcome = NoOutcome
    /\ ds = 0
    /\ variable_name = None
    /\ normalization_method = None
    /\ ref_data = None
    /\ pi = 0
    /\ results = <<>>
    /\ all_results = <<>>
    /\ csv_nrmse = None

CallComputeNrmse ==
    /\ n_pc = "call"
    /\ outcome' = compute_nrmse(reference, prediction, normalization)
    /\ n_pc' = "returned"
    /\ UNCHANGED <<reference, prediction, normalization, ds, variable_name,
                   normalization_method, ref_data, pi, results, all_results, csv_nrmse>>

\* ---- process_nrmse called directly, for a variable of the table and any
\* normalization_method string
ProcessStart ==
    /\ n_pc = "enter"
    /\ reference = None
    /\ prediction = None
    /\ normalization = None
    /\ outcome = NoOutcome
    /\ ds = 0
    /\ variable_name \in {datasets[d].file_prefix : d \in 1..Len(datasets)}
    /\ normalization_method \in NormalizationInputs
    /\ ref_data = None
    /\ pi = 0
    /\ results = <<>>
    /\ all_results = <<>>
    /\ csv_nrmse = None

\* lines 63-67: no reference file: the empty list is returned
ProcessMissingReference ==
    /\ n_pc = "enter"
    /\ results' = <<>>
    /\ n_pc' = "exit"
    /\ UNCHANGED <<reference, prediction, normalization, outcome, ds, variable_name,
                   normalization_method, ref_data, pi, all_results, csv_nrmse>>

\* lines 63-71: the reference is opened and read
ProcessOpenReference ==
    /\ n_pc = "enter"
    /\ \E ref \in ScriptRasters : ref_data' = ref
    /\ results' = <<>>
    /\ pi' = 1
    /\ n_pc' = "process"
    /\ UNCHANGED <<reference, prediction, normalization, outcome, ds, variable_name,
                   normalization_method, all_results, csv_nrmse>>

\* lines 76-78: the prediction file is missing: warning, continue
PredictionMissing ==
    /\ n_pc = "process"
    /\ pi <= 3
    /\ pi' = pi + 1
    /\ UNCHANGED <<n_pc, reference, prediction, normalization, outcome, ds, variable_name,
                   normalization_method, ref_data, results, all_results, csv_nrmse>>

\* lines 80-90: the prediction is resampled, compute_nrmse returns and the
\* record is appended
PredictionRecorded ==
    /\ n_pc = "process"
    /\ pi <= 3
    /\ \E resampled_pred \in ScriptRasters :
          LET out == compute_nrmse(ref_data, resampled_pred, normalization_method)
          IN  /\ out.kind = "return"
              /\ outcome' = out
              /\ results' = Append(results,
                    [variable |-> variable_name,
                     prediction_file |-> prediction_filenames(variable_name)[pi],
                     nrmse |-> out.value,
                     normalization_method |-> normalization_method])
    /\ pi' = pi + 1
    /\ UNCHANGED <<n_pc, reference, prediction, normalization, ds, variable_name,
                   normalization_method, ref_data, all_results, csv_nrmse>>

\* line 81: compute_nrmse raises; neither process_nrmse nor the script has a
\* try/except, so the exception leaves process_nrmse and ends the run
PredictionRaises ==
    /\ n_pc = "process"
    /\ pi <= 3
    /\ \E resampled_pred \in ScriptRasters :
          LET out == compute_nrmse(ref_data, resampled_pred, normalization_method)
          IN  /\ out.kind = "raise"
              /\ outcome' = out
    /\ n_pc' = "crashed"
    /\ UNCHANGED <<reference, prediction, normalization, ds, variable_name,
                   normalization_method, ref_data, pi, results, all_results, csv_nrmse>>

\* line 92: the loop is over, results is returned
ProcessReturn ==
    /\ n_pc = "process"
    /\ pi > 3
    /\ n_pc' = "exit"
    /\ UNCHANGED <<reference, prediction, normalization, outcome, ds, variable_name,
                   normalization_method, ref_data, pi, results, all_results, csv_nrmse>>

\* ---- the module-level script, lines 107-136
ScriptStart ==
    /\ n_pc = "script"
    /\ reference = None
    /\ prediction = None
    /\ normalization = None
    /\ outcome = NoOutcome
    /\ ds = 1
    /\ variable_name = None
    /\ normalization_method = None
    /\ ref_data = None
    /\ pi = 0
    /\ results = <<>>
    /\ all_results = <<>>
    /\ csv_nrmse = None

\* lines 109-116: the next dataset of the table is handed to process_nrmse
ScriptCallProcess ==
    /\ n_pc = "script"
    /\ ds <= NDatasets
    /\ variable_name' = datasets[ds].file_prefix
    /\ normalization_method' = datasets[ds].normalization
    /\ n_pc' = "enter"
    /\ UNCHANGED <<reference, prediction, normalization, outcome, ds, ref_data, pi,
                   results, all_results, csv_nrmse>>

\* line 117: all_results.extend(results), and on to the next dataset
ScriptExtend ==
    /\ n_pc = "exit"
    /\ all_results' = all_results \o results
    /\ results' = <<>>
    /\ ref_data' = None
    /\ variable_name' = None
    /\ normalization_method' = None
    /\ pi' = 0
    /\ ds' = ds + 1
    /\ n_pc' = "script"
    /\ UNCHANGED <<reference, prediction, normalization, outcome, csv_nrmse>>

\* lines 119-136
WriteNrmseCsv ==
    /\ n_pc = "script"
    /\ ds > NDatasets
    /\ csv_nrmse' = [header |-> nrmse_fieldnames,
                     rows |-> [r \in 1..Len(all_results) |-> FormattedResult(all_results[r])]]
    /\ n_pc' = "done"
    /\ UNCHANGED <<reference, prediction, normalization, outcome, ds, variable_name,
                   normalization_method, ref_data, pi, results, all_results>>

\* The two functions of NRMSE.py, each called once on any arguments.
InitCalls == DetectorIdle /\ (CallStart \/ ProcessStart)

NextCalls ==
    \/ CallComputeNrmse /\ UNCHANGED dvars
    \/ ProcessMissingReference /\ UNCHANGED dvars
    \/ ProcessOpenReference /\ UNCHANGED dvars
    \/ PredictionMissing /\ UNCHANGED dvars
    \/ PredictionRecorded /\ UNCHANGED dvars
    \/ PredictionRaises /\ UNCHANGED dvars
    \/ ProcessReturn /\ UNCHANGED dvars

SpecCalls == InitCalls /\ [][NextCalls]_vars

\* NRMSE.py run as a script.
InitNrmse == DetectorIdle /\ ScriptStart

NextNrmse ==
    \/ ScriptCallProcess /\ UNCHANGED dvars
    \/ ProcessMissingReference /\ UNCHANGED dvars
    \/ ProcessOpenReference /\ UNCHANGED dvars
    \/ PredictionMissing /\ UNCHANGED dvars
    \/ PredictionRecorded /\ UNCHANGED dvars
    \/ PredictionRaises /\ UNCHANGED dvars
    \/ ProcessReturn /\ UNCHANGED dvars
    \/ ScriptExtend /\ UNCHANGED dvars
    \/ WriteNrmseCsv /\ UNCHANGED dvars

SpecNrmse == InitNrmse /\ [][NextNrmse]_vars

Init == DetectorStart /\ NrmseIdle

Next ==
    \/ OpenReference /\ UNCHANGED nvars
    \/ OpenReferenceFails /\ UNCHANGED nvars
    \/ ProcessCoarse /\ UNCHANGED nvars
    \/ OpenCoarseFails /\ UNCHANGED nvars
    \/ WriteStatsCsv /\ UNCHANGED nvars

Spec == Init /\ [][Next]_vars


(***************************************************************************)
(*                 Claims about Inundation_detector.main                   *)
(***************************************************************************)
\* An iteration of the loop has completed: classification and
\* resampled_coarse are those of the last prediction processed.
Classified == Len(written) > 0

\* The per-pixel rule of the classification, stated on the two values.
Label(r, c) ==
    IF r = INUNDATED_VALUE /\ c = INUNDATED_VALUE THEN 1
    ELSE IF r = INUNDATED_VALUE /\ c # INUNDATED_VALUE THEN 2
    ELSE IF r # INUNDATED_VALUE /\ c = INUNDATED_VALUE THEN 3
    ELSE 255

AssignmentOrders ==
    {<<"tp", "fn", "fp">>, <<"tp", "fp", "fn">>, <<"fn", "tp", "fp">>,
     <<"fn", "fp", "tp">>, <<"fp", "tp", "fn">>, <<"fp", "fn", "tp">>}

\* C1: every pixel of the written classification carries the label the
\* four-way rule gives for its (reference, resampled prediction) pair, the
\* destination nodata -9999 included, and performing the three mask
\* assignments in any other order yields the same raster.
C1_LabelRule ==
    Classified =>
        /\ \A p \in Pixels :
              classification[p] = Label(ref_array[p], resampled_coarse[p])
        /\ \A order \in AssignmentOrders :
              ClassifyInOrder(ref_array, resampled_coarse, order) = classification

\* A raster holding a False Negative, a False Positive and a No-Data pixel
\* whose prediction is the destination nodata.
C1_Witness ==
    /\ Classified
    /\ \E p, q, r \in Pixels :
          /\ classification[p] = 2
          /\ classification[q] = 3
          /\ classification[r] = NODATA_CLASS /\ resampled_coarse[r] = DST_NODATA
    
\* C2: total_inundated_pixels is the number of reference pixels equal to
\* INUNDATED_VALUE, and in every record of stats the true positives and the
\* false negatives add up to it, whatever the prediction was.
C2_TpPlusFn ==
    d_pc \in {"loop", "done", "crashed"} /\ k >= 1 =>
        /\ total_inundated_pixels =
              Cardinality({p \in Pixels : ref_array[p] = INUNDATED_VALUE})
        /\ \A r \in 1..Len(stats) :
              stats[r]["True Positives"] + stats[r]["False Negatives"]
                 = total_inundated_pixels

\* Three predictions recorded against a reference with inundated and other
\* non-dry pixels, with different true-positive counts.
C2_Witness ==
    /\ Len(stats) = 3
    /\ total_inundated_pixels > 0
    /\ \E p \in Pixels : ref_array[p] = 2
    /\ stats[1]["True Positives"] # stats[2]["True Positives"]
    /\ stats[3]["False Negatives"] > 0

PctInRange(x) == x.den > 0 /\ 0 <= x.num /\ x.num <= 100 * x.den
PctIsZero(x) == x.den > 0 /\ x.num = 0
PctNonNegative(x) == x.den > 0 /\ x.num >= 0

\* C3 as stated: each of TP (%), FN (%), FP (%) lies in [0, 100] when
\* total_inundated_pixels > 0 and is 0 when it is 0.
C3_Original ==
    \A r \in 1..Len(stats) : \A f \in {"TP (%)", "FN (%)", "FP (%)"} :
        IF total_inundated_pixels > 0 THEN PctInRange(stats[r][f])
                                      ELSE PctIsZero(stats[r][f])

\* C3 amended: TP (%) and FN (%) lie in [0, 100]; FP (%) is non-negative and
\* at most 100 * (pixels not inundated in the reference) / (pixels inundated
\* in the reference), which exceeds 100 when the prediction floods more
\* non-inundated pixels than the reference has inundated ones; all three are
\* exactly 0 when total_inundated_pixels = 0.
C3_Amended ==
    \A r \in 1..Len(stats) :
        IF total_inundated_pixels > 0
        THEN /\ PctInRange(stats[r]["TP (%)"])
             /\ PctInRange(stats[r]["FN (%)"])
             /\ PctNonNegative(stats[r]["FP (%)"])
             /\ stats[r]["FP (%)"].num * total_inundated_pixels
                   <= 100 * (NPix - total_inundated_pixels) * stats[r]["FP (%)"].den
        ELSE \A f \in {"TP (%)", "FN (%)", "FP (%)"} : PctIsZero(stats[r][f])

\* A record whose FP (%) is above 100, and a record of a reference without
\* any inundated pixel whose prediction has some.
C3_Witness ==
    \E r \in 1..Len(stats) :
        /\ total_inundated_pixels > 0
        /\ stats[r]["FP (%)"].num > 100 * stats[r]["FP (%)"].den

C3_WitnessZero ==
    \E r \in 1..Len(stats) :
        total_inundated_pixels = 0 /\ stats[r]["False Positives"] > 0

\* The 'Resolution' column of stats.
Resolutions == [r \in 1..Len(stats) |-> stats[r]["Resolution"]]
\* COARSE_PATHS restricted to the predictions present, as resolutions.
PresentResolutions ==
    LET present == SelectSeq(COARSE_PATHS, LAMBDA c : c \in files)
    IN  [r \in 1..Len(present) |-> Res(present[r])]

\* C4 (main): with the reference present, a missing prediction file is
\* skipped and adds no record while the later predictions are still
\* processed: when the run is over, stats holds one record per prediction
\* present, in COARSE_PATHS order.
C4_SkipAndContinue ==
    d_pc \in {"done", "crashed"} /\ REFERENCE_PATH \in files =>
        Resolutions = PresentResolutions

(***************************************************************************)
(*                        Claims about NRMSE.py                            *)
(***************************************************************************)
ValidMethods == {"range", "mean", "std"}

\* The reference values at the pixels unmasked in both arrays.
JointRefValues(ref, pred) ==
    {ref.data[i] : i \in {j \in DOMAIN ref.data : ~ref.mask[j] /\ ~pred.mask[j]}}
NoJointValid(ref, pred) ==
    \A i \in DOMAIN ref.data : ref.mask[i] \/ pred.mask[i]
\* The sum of the reference values over the jointly valid pixels.
JointRefSum(ref, pred) ==
    SumOver({j \in DOMAIN ref.data : ~ref.mask[j] /\ ~pred.mask[j]}, ref.data)
\* The normalization factor of `method` is exactly 0: a constant field for
\* 'range' and 'std', a zero-sum field for 'mean'.
Degenerate(ref, pred, method) ==
    /\ ~NoJointValid(ref, pred)
    /\ \/ method \in {"range", "std"} /\ Cardinality(JointRefValues(ref, pred)) = 1
       \/ method = "mean" /\ JointRefSum(ref, pred) = 0
\* Reference and prediction agree at every jointly valid pixel.
Identical(ref, pred) ==
    \A i \in DOMAIN ref.data :
        ~ref.mask[i] /\ ~pred.mask[i] => ref.data[i] = pred.data[i]

\* The records computed so far: those of the datasets already returned and
\* those of the running process_nrmse.
Computed == all_results \o results

\* C5 (NRMSE.py): a run in which comparisons were computed, each to a finite
\* number, ends, also after a compute_nrmse call that raised, with
\* nrmse_results.csv written and holding one row per record computed, in
\* order.
C5_CsvAfterFailure ==
    n_pc \in {"done", "crashed"} /\ Len(Computed) > 0
       /\ (\A r \in 1..Len(Computed) : Computed[r].nrmse.kind = "num") =>
        /\ n_pc = "done"
        /\ Len(csv_nrmse.rows) = Len(Computed)
        /\ \A r \in 1..Len(Computed) :
              /\ csv_nrmse.rows[r].variable = Computed[r].variable
              /\ csv_nrmse.rows[r].prediction_file = Computed[r].prediction_file

\* C6: a call whose normalization factor is exactly 0 ends in an error and
\* returns no value.
C6_DegenerateIsError ==
    n_pc = "returned" /\ Degenerate(reference, prediction, normalization) =>
        outcome.kind = "raise"

\* C7: compute_nrmse with a method other than 'range', 'mean', 'std' raises
\* the ValueError of line 49 whatever the arrays are, and a process_nrmse
\* run with such a method holds no record: it ends in that ValueError at the
\* first prediction file it finds.
C7_InvalidMethod ==
    /\ n_pc = "returned" /\ normalization \notin ValidMethods =>
          outcome = ValueError(InvalidMethodMsg)
    /\ n_pc \in {"process", "exit", "crashed"}
          /\ normalization_method \notin ValidMethods =>
          /\ results = <<>>
          /\ n_pc = "crashed" => outcome = ValueError(InvalidMethodMsg)
    /\ \A r \in 1..Len(results) : results[r].normalization_method \in ValidMethods

\* process_nrmse skipped a missing prediction and then ended in the
\* ValueError of the invalid method.
C7_Witness ==
    /\ n_pc = "crashed"
    /\ normalization_method = "invalid"
    /\ pi = 2
    /\ outcome = ValueError(InvalidMethodMsg)

\* C8: with no pixel valid in both arrays compute_nrmse ends in an error for
\* each of 'range', 'mean' and 'std', and process_nrmse appends no record
\* computed from a reference without valid pixels.
C8_EmptyIsError ==
    /\ n_pc = "returned" /\ normalization \in ValidMethods
          /\ NoJointValid(reference, prediction) =>
          outcome.kind = "raise"
    /\ n_pc \in {"process", "crashed"}
          /\ normalization_method \in ValidMethods
          /\ (\A i \in DOMAIN ref_data.data : ref_data.mask[i]) =>
          results = <<>>

\* C9 as stated: with jointly valid pixels and a non-zero factor the value
\* returned is non-negative for each method, and 0 when the arrays agree on
\* the jointly valid pixels.
C9_Original ==
    n_pc = "returned" /\ normalization \in ValidMethods
       /\ ~NoJointValid(reference, prediction)
       /\ ~Degenerate(reference, prediction, normalization) =>
        /\ outcome.kind = "return"
        /\ outcome.value.kind = "num"
        /\ outcome.value.sgn >= 0
        /\ Identical(reference, prediction) => outcome.value.p = 0

\* C9 amended: with jointly valid pixels and a non-zero factor the value
\* returned is a finite number that is 0 when the arrays agree on the
\* jointly valid pixels; it is non-negative for 'range' and 'std', and for
\* 'mean' it has the sign of the mean of the jointly valid reference values:
\* non-negative when that mean is positive, non-positive when it is negative.
C9_Amended ==
    n_pc = "returned" /\ normalization \in ValidMethods
       /\ ~NoJointValid(reference, prediction)
       /\ ~Degenerate(reference, prediction, normalization) =>
        /\ outcome.kind = "return"
        /\ outcome.value.kind = "num"
        /\ normalization \in {"range", "std"} => outcome.value.sgn >= 0
        /\ normalization = "mean" /\ JointRefSum(reference, prediction) > 0 =>
              outcome.value.sgn >= 0
        /\ normalization = "mean" /\ JointRefSum(reference, prediction) < 0 =>
              outcome.value.sgn <= 0
        /\ Identical(reference, prediction) =>
              outcome.value.sgn = 0 /\ outcome.value.p = 0

\* A 'mean' call on a reference of negative mean that differs from the
\* prediction: the value returned is negative.
C9_Witness ==
    /\ n_pc = "returned"
    /\ normalization = "mean"
    /\ JointRefSum(reference, prediction) < 0
    /\ ~Identical(reference, prediction)
    /\ outcome.kind = "return"
    /\ outcome.value.sgn = -1

WithValue(arr, i, v) == [arr EXCEPT !.data[i] = v]
\* The array cut down to the pixels of S, none of them masked.
Compressed(arr, S) == [data |-> [i \in S |-> arr.data[i]], mask |-> [i \in S |-> FALSE]]

\* C10: the outcome of compute_nrmse is that of the two arrays cut down to
\* the pixels unmasked in both, and it does not change when the value of a
\* pixel masked in the reference or in the prediction is replaced.
C10_MaskedPixelsIgnored ==
    n_pc = "returned" =>
        /\ \A i \in Cells : \A v \in CellValues :
              reference.mask[i] \/ prediction.mask[i] =>
                 /\ compute_nrmse(WithValue(reference, i, v), prediction, normalization)
                       = outcome
                 /\ compute_nrmse(reference, WithValue(prediction, i, v), normalization)
                       = outcome
        /\ LET both == {i \in Cells : ~reference.mask[i] /\ ~prediction.mask[i]}
           IN  compute_nrmse(Compressed(reference, both), Compressed(prediction, both),
                             normalization) = outcome

\* A call that returned a non-zero number from arrays with a jointly valid
\* pixel and a pixel masked in the prediction only, where the masked pixel's
\* reference value lies outside the jointly valid ones.
C10_Witness ==
    /\ n_pc = "returned"
    /\ outcome.kind = "return"
    /\ outcome.value.kind = "num"
    /\ outcome.value.sgn # 0
    /\ \E i, j \in Cells :
          /\ ~reference.mask[i] /\ ~prediction.mask[i]
          /\ ~reference.mask[j] /\ prediction.mask[j]
          /\ reference.data[j] # reference.data[i]

=============================================================================
